---- MODULE Spec2Model ----
(***************************************************************************)
(* Model of the quiz generator service of main.py: the POST /generate-quiz *)
(* pipeline (generate_quiz), the PDF text extractor, the Azure OpenAI      *)
(* call with its response cleaning and JSON decoding, the pydantic         *)
(* question models and the two error envelopes.                            *)
(*                                                                         *)
(* Text is a sequence of lexical units: one unit per character, except     *)
(* that a JSON string literal, number or null is one unit.                 *)
(***************************************************************************)
EXTENDS Integers, Sequences, FiniteSets, TLC

VARIABLES
    pc,              \* position of the request in generate_quiz
    path,            \* history: the positions the request has been in
    filename,        \* file.filename
    pdf,             \* the uploaded payload, once read:  size, parse, pages
    text,            \* the extracted text (line 198)
    model_out,       \* history: what the model service produced
    questions_data,  \* the decoded completion (line 207)
    quiz,            \* the validated question lists and their total
    response,        \* the HTTP response: status and JSON body
    errKind,         \* history: which failure ended the request
    extractorCalls,  \* history: calls of extract_text_from_pdf
    modelCalls       \* history: calls of client.chat.completions.create

vars == <<pc, path, filename, pdf, text, model_out, questions_data, quiz,
          response, errKind, extractorCalls, modelCalls>>

-----------------------------------------------------------------------------
(* Bounds and program constants *)

MaxRecs == 2          \* the longest question list the model service returns

MaxBytes == 10485760  \* 10 * 1024 * 1024, the payload cap
MinTextLen == 100     \* the shortest text questions are generated from
FenceJsonLen == 7     \* the length of the opening fence tagged json
FenceLen == 3         \* the length of a fence, three backticks

-----------------------------------------------------------------------------
(* Strings *)

Rep(c, n) == [i \in 1..n |-> c]

Whitespace == {" ", "\n", "\t", "\r"}

RECURSIVE LStrip(_)
LStrip(s) ==
    IF s # <<>> /\ Head(s) \in Whitespace THEN LStrip(Tail(s)) ELSE s

RECURSIVE RStrip(_)
RStrip(s) ==
    IF s # <<>> /\ s[Len(s)] \in Whitespace
    THEN RStrip(SubSeq(s, 1, Len(s) - 1)) ELSE s

\* str.strip()
Strip(s) == RStrip(LStrip(s))

\* str.startswith(p)
StartsWith(s, p) == Len(s) >= Len(p) /\ SubSeq(s, 1, Len(p)) = p

\* str.endswith(p)
EndsWith(s, p) ==
    Len(s) >= Len(p) /\ SubSeq(s, Len(s) - Len(p) + 1, Len(s)) = p

\* s[n:]
DropFirst(s, n) == SubSeq(s, n + 1, Len(s))

\* s[:-n]
DropLast(s, n) == SubSeq(s, 1, Len(s) - n)

PdfSuffix == <<".", "p", "d", "f">>

-----------------------------------------------------------------------------
(* The two error envelopes *)

\* an HTTPException answered without its detail
HTTPErrorWithoutDetail(status, detail) ==
    [status |-> status, body |-> [status_code |-> status]]

\* What FastAPI answers to a raised HTTPException(status_code, detail).
HTTPError(status, detail) ==
    [status |-> status, body |-> [detail |-> detail]]

\* global_exception_handler
GlobalError(exc) ==
    [status |-> 500,
     body |-> [success |-> FALSE,
               message |-> <<"Internal server error">>,
               error |-> exc]]

\* str(e) of the exceptions the environment can raise
ExcTexts == {"e1", "e2"}

NoResponse == [status |-> 0, body |-> [pending |-> TRUE]]

-----------------------------------------------------------------------------
(* Text Extractor *)

RECURSIVE ConcatPages(_)
ConcatPages(pages) ==
    IF pages = <<>> THEN <<>>
    ELSE Head(pages) \o <<"\n">> \o ConcatPages(Tail(pages))

\* extract_text_from_pdf: [ok, text] or [ok = FALSE, exc]
ExtractTextFromPdf(p) ==
    IF p.parse = "ok"
    THEN [ok |-> TRUE, text |-> Strip(ConcatPages(p.pages)), exc |-> "none"]
    ELSE [ok |-> FALSE, text |-> <<>>, exc |-> p.parse]

-----------------------------------------------------------------------------
(* JSON decoding: json.loads on a text of lexical units *)

\* The string literals of the texts, with the strings they decode to.
StrDecoded ==
    ("\"mcq\"" :> "mcq") @@ ("\"short_answer\"" :> "short_answer") @@
    ("\"fill_in_the_blanks\"" :> "fill_in_the_blanks") @@
    ("\"question\"" :> "question") @@ ("\"options\"" :> "options") @@
    ("\"correct_answer\"" :> "correct_answer") @@
    ("\"explanation\"" :> "explanation") @@
    ("\"expected_answer\"" :> "expected_answer") @@
    ("\"answer\"" :> "answer") @@ ("\"hint\"" :> "hint") @@
    ("\"Q?\"" :> "Q?") @@ ("\"A\"" :> "A") @@ ("\"\"" :> "")

StrLits == DOMAIN StrDecoded
NumLits == {"1"}
JsonWhitespace == {" ", "\n", "\t", "\r"}

\* Decoded values: [t, v] with t the Python type.
PyStr(x) == [t |-> "str", v |-> x]
PyNum(x) == [t |-> "num", v |-> x]
PyNone == [t |-> "null", v |-> "None"]
PyList(xs) == [t |-> "list", v |-> xs]
\* a dict is its items in insertion order, [k, val]; the last item of a key wins
PyDict(items) == [t |-> "dict", v |-> items]

ParseFail == [ok |-> FALSE, val |-> PyNone, pos |-> 0]
ParseOk(val, pos) == [ok |-> TRUE, val |-> val, pos |-> pos]

RECURSIVE SkipWs(_, _)
SkipWs(s, i) ==
    IF i <= Len(s) /\ s[i] \in JsonWhitespace THEN SkipWs(s, i + 1) ELSE i

At(s, i) == IF i <= Len(s) THEN s[i] ELSE "EOF"

RECURSIVE ParseValue(_, _)
RECURSIVE ParseElements(_, _, _)
RECURSIVE ParseMembers(_, _, _)

\* the elements of an array after "[" or ",", up to the closing "]"
ParseElements(s, i, acc) ==
    LET r == ParseValue(s, i) IN
    IF ~r.ok THEN ParseFail
    ELSE LET j == SkipWs(s, r.pos) IN
         IF At(s, j) = "," THEN ParseElements(s, j + 1, Append(acc, r.val))
         ELSE IF At(s, j) = "]" THEN ParseOk(PyList(Append(acc, r.val)), j + 1)
         ELSE ParseFail

\* the members of an object after "{" or ",", up to the closing "}"
ParseMembers(s, i, acc) ==
    LET k == SkipWs(s, i) IN
    IF At(s, k) \notin StrLits THEN ParseFail
    ELSE LET c == SkipWs(s, k + 1) IN
         IF At(s, c) # ":" THEN ParseFail
         ELSE LET r == ParseValue(s, c + 1) IN
              IF ~r.ok THEN ParseFail
              ELSE LET j == SkipWs(s, r.pos)
                       items == Append(acc, [k |-> StrDecoded[s[k]], val |-> r.val])
                   IN IF At(s, j) = "," THEN ParseMembers(s, j + 1, items)
                      ELSE IF At(s, j) = "}" THEN ParseOk(PyDict(items), j + 1)
                      ELSE ParseFail

ParseValue(s, i) ==
    LET j == SkipWs(s, i)
        u == At(s, j)
    IN IF u \in StrLits THEN ParseOk(PyStr(StrDecoded[u]), j + 1)
       ELSE IF u \in NumLits THEN ParseOk(PyNum(u), j + 1)
       ELSE IF u = "null" THEN ParseOk(PyNone, j + 1)
       ELSE IF u = "["
            THEN IF At(s, SkipWs(s, j + 1)) = "]"
                 THEN ParseOk(PyList(<<>>), SkipWs(s, j + 1) + 1)
                 ELSE ParseElements(s, j + 1, <<>>)
       ELSE IF u = "{"
            THEN IF At(s, SkipWs(s, j + 1)) = "}"
                 THEN ParseOk(PyDict(<<>>), SkipWs(s, j + 1) + 1)
                 ELSE ParseMembers(s, j + 1, <<>>)
       ELSE ParseFail

\* json.loads: one value, whitespace around it, nothing else
JsonLoads(s) ==
    LET r == ParseValue(s, 1) IN
    IF r.ok /\ SkipWs(s, r.pos) = Len(s) + 1
    THEN [ok |-> TRUE, val |-> r.val]
    ELSE [ok |-> FALSE, val |-> PyNone]

-----------------------------------------------------------------------------
(* Response Parser: the cleaning and decoding of generate_questions_with_azure *)

\* the backtick character (a string of the module cannot hold one)
Backtick == "<backtick>"

Fence == <<Backtick, Backtick, Backtick>>
FenceJson == Fence \o <<"j", "s", "o", "n">>

\* the cleaning without the test of line 125
StripFencesNoJsonTag(t) ==
    LET a == Strip(t)
        c == IF StartsWith(a, Fence) THEN DropFirst(a, FenceLen) ELSE a
        d == IF EndsWith(c, Fence) THEN DropLast(c, FenceLen) ELSE c
    IN Strip(d)

\* lines 124-132
StripFences(t) ==
    LET a == Strip(t)
        b == IF StartsWith(a, FenceJson) THEN DropFirst(a, FenceJsonLen) ELSE a
        c == IF StartsWith(b, Fence) THEN DropFirst(b, FenceLen) ELSE b
        d == IF EndsWith(c, Fence) THEN DropLast(c, FenceLen) ELSE c
    IN Strip(d)

\* lines 124-136: the decoded document, or the JSONDecodeError
ParseResponse(t) == JsonLoads(StripFences(t))

-----------------------------------------------------------------------------
(* Response Validator: the pydantic models and the list comprehensions *)

IsDict(x) == x.t = "dict"

HasKey(d, key) == \E i \in 1..Len(d.v) : d.v[i].k = key

\* d[key]: the last item of the key
Lookup(d, key) ==
    LET last == CHOOSE i \in 1..Len(d.v) :
                    /\ d.v[i].k = key
                    /\ \A j \in (i + 1)..Len(d.v) : d.v[j].k # key
    IN d.v[last].val

\* dict.get(key, default)
DictGet(d, key, default) == IF HasKey(d, key) THEN Lookup(d, key) ELSE default

\* Field types are validated as declared: a str field takes a string only (a
\* number is not turned into a string), a List[str] field a list of strings.

\* a required field declared  name: str
RequiredStr(q, name) == HasKey(q, name) /\ Lookup(q, name).t = "str"

\* a field declared  name: Optional[str] = None
OptionalStr(q, name) == HasKey(q, name) => Lookup(q, name).t \in {"str", "null"}

\* a required field declared  name: List[str]
RequiredStrList(q, name) ==
    /\ HasKey(q, name)
    /\ Lookup(q, name).t = "list"
    /\ \A i \in 1..Len(Lookup(q, name).v) : Lookup(q, name).v[i].t = "str"

\* the value of an Optional[str] field of a validated record
OptionalValue(q, name) ==
    IF HasKey(q, name) /\ Lookup(q, name).t = "str"
    THEN Lookup(q, name).v ELSE "None"

InvalidModel == [ok |-> FALSE, val |-> [invalid |-> TRUE]]

\* MCQQuestion with correct_answer declared optional
MCQQuestionNoAnswerCheck(q) ==
    IF /\ IsDict(q)
       /\ RequiredStr(q, "question")
       /\ RequiredStrList(q, "options")
       /\ OptionalStr(q, "explanation")
    THEN [ok |-> TRUE,
          val |-> [question |-> Lookup(q, "question").v,
                   options |-> [i \in 1..Len(Lookup(q, "options").v) |->
                                    Lookup(q, "options").v[i].v],
                   correct_answer |-> OptionalValue(q, "correct_answer"),
                   explanation |-> OptionalValue(q, "explanation")]]
    ELSE InvalidModel

\* MCQQuestion(**q): the record, or the TypeError / ValidationError
MCQQuestion(q) ==
    IF /\ IsDict(q)
       /\ RequiredStr(q, "question")
       /\ RequiredStrList(q, "options")
       /\ RequiredStr(q, "correct_answer")
       /\ OptionalStr(q, "explanation")
    THEN [ok |-> TRUE,
          val |-> [question |-> Lookup(q, "question").v,
                   options |-> [i \in 1..Len(Lookup(q, "options").v) |->
                                    Lookup(q, "options").v[i].v],
                   correct_answer |-> Lookup(q, "correct_answer").v,
                   explanation |-> OptionalValue(q, "explanation")]]
    ELSE InvalidModel

\* ShortAnswerQuestion(**q)
ShortAnswerQuestion(q) ==
    IF /\ IsDict(q)
       /\ RequiredStr(q, "question")
       /\ RequiredStr(q, "expected_answer")
    THEN [ok |-> TRUE,
          val |-> [question |-> Lookup(q, "question").v,
                   expected_answer |-> Lookup(q, "expected_answer").v]]
    ELSE InvalidModel

\* FillInTheBlank(**q)
FillInTheBlank(q) ==
    IF /\ IsDict(q)
       /\ RequiredStr(q, "question")
       /\ RequiredStr(q, "answer")
       /\ OptionalStr(q, "hint")
    THEN [ok |-> TRUE,
          val |-> [question |-> Lookup(q, "question").v,
                   answer |-> Lookup(q, "answer").v,
                   hint |-> OptionalValue(q, "hint")]]
    ELSE InvalidModel

\* for q in x: the values a Python iteration of x yields, or the TypeError
Iterate(x) ==
    IF x.t = "list" THEN [ok |-> TRUE, items |-> x.v]
    ELSE IF x.t = "dict"
         THEN [ok |-> TRUE, items |-> [i \in 1..Len(x.v) |-> PyStr(x.v[i].k)]]
    ELSE IF x.t = "str"
         THEN [ok |-> TRUE, items |-> IF x.v = "" THEN <<>> ELSE <<PyStr(x.v)>>]
    ELSE [ok |-> FALSE, items |-> <<>>]

\* Model(**q) for the model class of the list named key
Construct(key, q) ==
    IF key = "mcq" THEN MCQQuestion(q)
    ELSE IF key = "short_answer" THEN ShortAnswerQuestion(q)
    ELSE FillInTheBlank(q)

\* [Model(**q) for q in questions_data.get(key, [])]
Comprehension(data, key) ==
    LET it == Iterate(DictGet(data, key, PyList(<<>>))) IN
    IF it.ok /\ \A i \in 1..Len(it.items) : Construct(key, it.items[i]).ok
    THEN [ok |-> TRUE,
          val |-> [i \in 1..Len(it.items) |-> Construct(key, it.items[i]).val]]
    ELSE [ok |-> FALSE, val |-> <<>>]

\* the total without the third list
TotalWithoutBlanks(mcq, short, blanks) == Len(mcq) + Len(short)

\* line 214
Total(mcq, short, blanks) == Len(mcq) + Len(short) + Len(blanks)

\* lines 216-223
QuizResponse(mcq, short, blanks, total, fname) ==
    [status |-> 200,
     body |-> [success |-> TRUE,
               message |-> <<"Successfully generated ", total,
                             " questions from ", fname>>,
               mcq_questions |-> mcq,
               short_answer_questions |-> short,
               fill_in_the_blanks |-> blanks,
               total_questions |-> total]]

-----------------------------------------------------------------------------
(* The requests and the answers of the environment *)

Filenames ==
    { <<"a", ".", "p", "d", "f">>,
      <<".", "p", "d", "f">>,
      <<"a", ".", "P", "D", "F">>,
      <<"a", ".", "t", "x", "t">>,
      <<"a", ".", "p", "d", "f", ".", "t", "x", "t">>,
      <<"p", "d", "f">>,
      <<>> }

\* the page texts of the documents
PageSets ==
    { <<>>,
      <<Rep(" ", MinTextLen + 1)>>,
      <<Rep("x", MinTextLen - 1)>>,
      <<<<" ">> \o Rep("x", MinTextLen - 1) \o <<" ">>>>,
      <<Rep("x", MinTextLen - 51), Rep("x", 49)>>,
      <<Rep("x", MinTextLen - 50), Rep("x", 49)>>,
      <<Rep("x", MinTextLen + 1)>> }

Payloads ==
    { [size |-> n, parse |-> "ok", pages |-> <<Rep("x", MinTextLen)>>] :
          n \in {MaxBytes, MaxBytes + 1, MaxBytes + 2} }
    \cup { [size |-> 1000, parse |-> "ok", pages |-> pg] : pg \in PageSets }
    \cup { [size |-> 1000, parse |-> e, pages |-> <<>>] : e \in ExcTexts }

\* JSON texts
RECURSIVE Join(_)
Join(ts) ==
    IF ts = <<>> THEN <<>>
    ELSE IF Len(ts) = 1 THEN ts[1]
    ELSE ts[1] \o <<",">> \o Join(Tail(ts))

ArrText(elems) == <<"[">> \o Join(elems) \o <<"]">>
ObjText(members) == <<"{">> \o Join(members) \o <<"}">>
Mem(k, v) == <<k, ":">> \o v
S(lit) == <<lit>>

QuestionMem == Mem("\"question\"", S("\"Q?\""))
OptionsMem == Mem("\"options\"", ArrText(<<S("\"A\""), S("\"\"")>>))
AnswerMem == Mem("\"correct_answer\"", S("\"A\""))

McqGood ==
    << ObjText(<<QuestionMem, OptionsMem, AnswerMem,
                Mem("\"explanation\"", S("\"A\""))>>),
      ObjText(<<QuestionMem, OptionsMem, AnswerMem>>),
      ObjText(<<AnswerMem, Mem("\"options\"", ArrText(<<>>)), QuestionMem,
                Mem("\"explanation\"", S("null")), Mem("\"hint\"", S("1"))>>) >>

McqBad ==
    { ObjText(<<QuestionMem, OptionsMem>>),
      ObjText(<<OptionsMem, AnswerMem>>),
      ObjText(<<QuestionMem, AnswerMem>>),
      ObjText(<<QuestionMem, OptionsMem, Mem("\"correct_answer\"", S("null"))>>),
      ObjText(<<QuestionMem, OptionsMem, Mem("\"correct_answer\"", S("1"))>>),
      ObjText(<<QuestionMem, Mem("\"options\"", S("\"A\"")), AnswerMem>>),
      ObjText(<<QuestionMem, Mem("\"options\"", ArrText(<<S("\"A\""), S("1")>>)),
                AnswerMem>>),
      ObjText(<<QuestionMem, OptionsMem, AnswerMem,
                Mem("\"explanation\"", ArrText(<<>>))>>),
      ObjText(<<>>),
      S("\"Q?\"") }

ShortGood ==
    << ObjText(<<QuestionMem, Mem("\"expected_answer\"", S("\"A\""))>>) >>

ShortBad ==
    { ObjText(<<QuestionMem>>),
      ObjText(<<QuestionMem, Mem("\"expected_answer\"", ArrText(<<>>))>>) }

BlankGood ==
    << ObjText(<<QuestionMem, Mem("\"answer\"", S("\"A\"")),
                Mem("\"hint\"", S("\"A\""))>>),
      ObjText(<<QuestionMem, Mem("\"answer\"", S("\"A\""))>>) >>

BlankBad ==
    { ObjText(<<Mem("\"answer\"", S("\"A\""))>>),
      ObjText(<<QuestionMem, Mem("\"answer\"", S("\"A\"")),
                Mem("\"hint\"", S("1"))>>) }

\* the i-th well-formed record of a list
Pick(good, i) == good[((i - 1) % Len(good)) + 1]

\* the list of n well-formed records
ListOf(good, n) == ArrText([i \in 1..n |-> Pick(good, i)])

\* the lists of n records whose last record is a bad one
ListsEndingIn(good, bad, n) ==
    { ArrText([i \in 1..n |-> IF i = n THEN b ELSE Pick(good, i)]) : b \in bad }

DocText(mcq, short, blanks) ==
    ObjText(<<Mem("\"mcq\"", mcq), Mem("\"short_answer\"", short),
              Mem("\"fill_in_the_blanks\"", blanks)>>)

OneShort == ListOf(ShortGood, 1)
OneBlank == ListOf(BlankGood, 1)
OneMcq == ListOf(McqGood, 1)

\* the completions every record of which is well formed
GoodDocs ==
    { DocText(ListOf(McqGood, i), ListOf(ShortGood, j), ListOf(BlankGood, k)) :
          i \in 0..MaxRecs, j \in 0..MaxRecs, k \in 0..MaxRecs }
    \cup { ObjText(<<>>),
           ObjText(<<Mem("\"short_answer\"", OneShort)>>),
           ObjText(<<Mem("\"mcq\"", ArrText(<<>>)), Mem("\"mcq\"", OneMcq)>>) }

\* the completions that decode and hold a record that is not well formed
BadRecordDocs ==
    UNION { { DocText(m, OneShort, OneBlank) : m \in ListsEndingIn(McqGood, McqBad, n) }
            \cup { DocText(OneMcq, s, OneBlank) : s \in ListsEndingIn(ShortGood, ShortBad, n) }
            \cup { DocText(OneMcq, OneShort, b) : b \in ListsEndingIn(BlankGood, BlankBad, n) } :
            n \in 1..MaxRecs }

\* the completions that decode to something other than lists of records
OddDocs ==
    { ArrText(<<>>), S("null"), S("\"Q?\""),
      DocText(S("null"), OneShort, OneBlank),
      DocText(S("\"\""), OneShort, OneBlank),
      DocText(ObjText(<<>>), OneShort, OneBlank),
      DocText(S("1"), OneShort, OneBlank) }

\* the completions that do not decode
Garbage ==
    { <<>>, <<"j">>, <<"{">>, <<"{", "\"mcq\"", "}">>, <<"[", "null", ",", "]">>,
      ObjText(<<>>) \o ObjText(<<>>) }

Bodies == GoodDocs \cup BadRecordDocs \cup OddDocs \cup Garbage

\* how the model service dresses its answer
FenceTagged(tag) == Fence \o tag
OpenFences ==
    { <<>>, Fence, FenceJson, FenceTagged(<<"J", "S", "O", "N">>),
      FenceTagged(<<"j", "s">>) }
\* whitespace around the whole answer (pad) and inside the fences (gap)
Layouts == { [pad |-> <<>>, gap |-> <<>>], [pad |-> <<" ", "\n">>, gap |-> <<"\n">>] }
Wrappers ==
    { [pad |-> l.pad, open |-> o, gap |-> l.gap, close |-> c] :
          l \in Layouts, o \in OpenFences, c \in {<<>>, Fence} }

Wrap(w, body) ==
    w.pad \o w.open \o w.gap \o body \o w.gap \o w.close \o w.pad

-----------------------------------------------------------------------------
(* Request Handler: generate_quiz *)

States == <<"Received", "Validated", "TextExtracted", "Generated", "Parsed",
            "Responded">>

Terminal == {"Responded", "Error"}

\* an order that goes from Validated to Generated
SuccessorSkippingExtraction(p) ==
    IF p = "Validated" THEN "Generated"
    ELSE States[(CHOOSE i \in 1..Len(States) : States[i] = p) + 1]

\* the position after p when the step at p raises nothing
Successor(p) == States[(CHOOSE i \in 1..Len(States) : States[i] = p) + 1]

\* the suffix test without the dot
AcceptedFileTypeNoDot(fname) == EndsWith(fname, <<"p", "d", "f">>)

\* line 187
AcceptedFileType(fname) == EndsWith(fname, PdfSuffix)

\* the guard with >= for >
TooLargeAtCap(n) == n >= MaxBytes

\* line 194
TooLarge(n) == n > MaxBytes

\* the guard rejecting only the empty text
TextTooShortOnlyEmpty(t) == Len(t) = 0

\* line 200
TextTooShort(t) == Len(t) < MinTextLen

\* a client that calls again after a failed call
ModelCallAttemptsWithRetry(ok) == IF ok THEN 1 ELSE 2

\* line 111: the calls one run of generate_questions_with_azure makes
ModelCallAttempts(ok) == 1

\* lines 227-228
UncategorizedError(exc) == HTTPError(500, <<"Error: ", exc>>)

Advance ==
    /\ pc' = Successor(pc)
    /\ path' = Append(path, Successor(pc))
    /\ UNCHANGED <<response, errKind>>

Raise(resp, kind) ==
    /\ pc' = "Error"
    /\ path' = Append(path, "Error")
    /\ response' = resp
    /\ errKind' = kind

Init ==
    /\ pc = "Received"
    /\ path = <<"Received">>
    /\ filename \in Filenames
    /\ pdf = [size |-> 0, parse |-> "unread", pages |-> <<>>]
    /\ text = <<>>
    /\ model_out = [ok |-> FALSE, has_content |-> FALSE, content |-> <<>>,
                    body |-> <<>>, open |-> <<>>, close |-> <<>>]
    /\ questions_data = PyNone
    /\ quiz = [mcq |-> <<>>, short |-> <<>>, blanks |-> <<>>]
    /\ response = NoResponse
    /\ errKind = "none"
    /\ extractorCalls = 0
    /\ modelCalls = 0

\* An exception raised around the endpoint function, while the framework reads
\* the request, reaches global_exception_handler.
FrameworkFault ==
    /\ pc = "Received"
    /\ \E e \in ExcTexts : Raise(GlobalError(e), "outside_endpoint")
    /\ UNCHANGED <<filename, pdf, text, model_out, questions_data, quiz,
                   extractorCalls, modelCalls>>

\* lines 186-188
ValidateFileType ==
    /\ pc = "Received"
    /\ IF ~AcceptedFileType(filename)
       THEN Raise(HTTPError(400, <<"Only PDF files are allowed">>), "unsupported_type")
       ELSE Advance
    /\ UNCHANGED <<filename, pdf, text, model_out, questions_data, quiz,
                   extractorCalls, modelCalls>>

\* line 191 raising: the read of the upload fails
ReadFault ==
    /\ pc = "Validated"
    /\ \E e \in ExcTexts : Raise(UncategorizedError(e), "uncategorized")
    /\ UNCHANGED <<filename, pdf, text, model_out, questions_data, quiz,
                   extractorCalls, modelCalls>>

\* lines 191-198
ReadAndExtract ==
    /\ pc = "Validated"
    /\ \E p \in Payloads :
         /\ pdf' = p
         /\ IF TooLarge(p.size)
            THEN /\ Raise(HTTPError(400, <<"File too large. Max 10MB">>), "too_large")
                 /\ UNCHANGED <<text, extractorCalls>>
            ELSE LET r == ExtractTextFromPdf(p) IN
                 /\ extractorCalls' = extractorCalls + 1
                 /\ IF r.ok
                    THEN text' = r.text /\ Advance
                    ELSE /\ Raise(HTTPError(400, <<"Error reading PDF: ", r.exc>>),
                                  "read_error")
                         /\ UNCHANGED text
    /\ UNCHANGED <<filename, model_out, questions_data, quiz, modelCalls>>

\* lines 200-201
RejectShortText ==
    /\ pc = "TextExtracted"
    /\ TextTooShort(text)
    /\ Raise(HTTPError(400, <<"PDF text too short. Need at least 100 characters">>),
             "too_short")
    /\ UNCHANGED <<filename, pdf, text, model_out, questions_data, quiz,
                   extractorCalls, modelCalls>>

\* lines 203-204 raising: a print fails
PrintFault ==
    /\ pc = "TextExtracted"
    /\ ~TextTooShort(text)
    /\ \E e \in ExcTexts : Raise(UncategorizedError(e), "uncategorized")
    /\ UNCHANGED <<filename, pdf, text, model_out, questions_data, quiz,
                   extractorCalls, modelCalls>>

\* lines 203-207 and 73-119: the call fails
CallModelFails ==
    /\ pc = "TextExtracted"
    /\ ~TextTooShort(text)
    /\ modelCalls' = modelCalls + ModelCallAttempts(FALSE)
    /\ \E e \in ExcTexts :
         Raise(HTTPError(500, <<"Azure OpenAI error: ", e>>), "model_service")
    /\ UNCHANGED <<filename, pdf, text, model_out, questions_data, quiz,
                   extractorCalls>>

\* lines 203-207 and 73-121: the call returns a completion
CallModel ==
    /\ pc = "TextExtracted"
    /\ ~TextTooShort(text)
    /\ modelCalls' = modelCalls + ModelCallAttempts(TRUE)
    /\ \/ \E b \in Bodies, w \in Wrappers :
            model_out' = [ok |-> TRUE, has_content |-> TRUE, content |-> Wrap(w, b),
                          body |-> b, open |-> w.open, close |-> w.close]
       \/ model_out' = [model_out EXCEPT !.ok = TRUE]
    /\ Advance
    /\ UNCHANGED <<filename, pdf, text, questions_data, quiz, extractorCalls>>

\* lines 121-141 and 207-212
ParseAndValidate ==
    /\ pc = "Generated"
    /\ IF ~model_out.has_content
       THEN \* None has no strip(): line 140
            /\ Raise(HTTPError(500, <<"Azure OpenAI error: ", "AttributeError">>),
                     "model_service")
            /\ UNCHANGED <<questions_data, quiz>>
       ELSE LET d == ParseResponse(model_out.content) IN
            IF ~d.ok
            THEN /\ Raise(HTTPError(500, <<"Failed to parse AI response: ",
                                           "JSONDecodeError">>), "malformed_output")
                 /\ UNCHANGED <<questions_data, quiz>>
            ELSE /\ questions_data' = d.val
                 /\ IF ~IsDict(d.val)
                    THEN \* no get(): lines 210, 227
                         /\ Raise(UncategorizedError("AttributeError"),
                                  "schema_validation")
                         /\ UNCHANGED quiz
                    ELSE LET m == Comprehension(d.val, "mcq")
                             s == Comprehension(d.val, "short_answer")
                             b == Comprehension(d.val, "fill_in_the_blanks")
                         IN IF m.ok /\ s.ok /\ b.ok
                            THEN /\ quiz' = [mcq |-> m.val, short |-> s.val,
                                             blanks |-> b.val]
                                 /\ Advance
                            ELSE /\ Raise(UncategorizedError("ValidationError"),
                                          "schema_validation")
                                 /\ UNCHANGED quiz
    /\ UNCHANGED <<filename, pdf, text, model_out, extractorCalls, modelCalls>>

\* lines 214-223
Respond ==
    /\ pc = "Parsed"
    /\ pc' = Successor(pc)
    /\ path' = Append(path, Successor(pc))
    /\ response' = QuizResponse(quiz.mcq, quiz.short, quiz.blanks,
                                Total(quiz.mcq, quiz.short, quiz.blanks), filename)
    /\ UNCHANGED <<filename, pdf, text, model_out, questions_data, quiz, errKind,
                   extractorCalls, modelCalls>>

\* lines 214-223 raising: building the result fails
RespondFault ==
    /\ pc = "Parsed"
    /\ \E e \in ExcTexts : Raise(UncategorizedError(e), "uncategorized")
    /\ UNCHANGED <<filename, pdf, text, model_out, questions_data, quiz,
                   extractorCalls, modelCalls>>

Next ==
    \/ FrameworkFault
    \/ ValidateFileType
    \/ ReadFault
    \/ ReadAndExtract
    \/ RejectShortText
    \/ PrintFault
    \/ CallModelFails
    \/ CallModel
    \/ ParseAndValidate
    \/ Respond
    \/ RespondFault

Spec == Init /\ [][Next]_vars

-----------------------------------------------------------------------------
(* Properties *)

Visited(p) == \E i \in 1..Len(path) : path[i] = p

\* the request entered generate_quiz and ended in a failure
FailedInEndpoint == pc = "Error" /\ errKind # "outside_endpoint"

\* the completion has been cleaned and decoded
ParserRan == Visited("Generated") /\ pc # "Generated" /\ model_out.has_content

HasIndicator(body) == "success" \in DOMAIN body

MessageOf(body) ==
    IF "message" \in DOMAIN body THEN body.message
    ELSE IF "detail" \in DOMAIN body THEN body.detail
    ELSE <<>>

\* C1: a request whose extracted text has fewer than 100 characters (none
\* included) goes no further than the length check, ends with status 400 and
\* never calls the model service.
C1_ShortTextRejectedWithoutModelCall ==
    (Visited("TextExtracted") /\ Len(text) < MinTextLen) =>
        /\ modelCalls = 0
        /\ pc \in {"TextExtracted", "Error"}
        /\ pc = "Error" => response.status = 400

C1_Witness ==
    /\ pc = "Error"
    /\ Visited("TextExtracted")
    /\ Len(text) = MinTextLen - 1
    /\ errKind = "too_short"
    /\ response.status = 400
    /\ modelCalls = 0

\* C2: a request whose filename does not end in .pdf is rejected by
\* generate_quiz with status 400 and the text extractor is never called.
C2_BadExtensionRejectedBeforeExtraction ==
    ~EndsWith(filename, PdfSuffix) =>
        /\ extractorCalls = 0
        /\ pc \in {"Received", "Error"}
        /\ FailedInEndpoint => response.status = 400 /\ errKind = "unsupported_type"

C2_Witness ==
    /\ pc = "Error"
    /\ filename = <<"a", ".", "P", "D", "F">>
    /\ errKind = "unsupported_type"
    /\ response.status = 400
    /\ extractorCalls = 0

\* C3: in a success response total_questions is the number of MCQ records plus
\* the number of short-answer records plus the number of fill-in-the-blank
\* records of that response.
C3_TotalIsSumOfLists ==
    (pc = "Responded" /\ response.body.success) =>
        response.body.total_questions =
            Len(response.body.mcq_questions)
            + Len(response.body.short_answer_questions)
            + Len(response.body.fill_in_the_blanks)

C3_Witness ==
    /\ pc = "Responded"
    /\ response.body.success
    /\ Len(response.body.mcq_questions) = 2
    /\ Len(response.body.short_answer_questions) = 1
    /\ Len(response.body.fill_in_the_blanks) = 2
    /\ response.body.total_questions = 5

\* C4: a payload of exactly 10 MiB passes the size guard and is handed to the
\* text extractor; a payload of 10 MiB plus one byte or more is rejected with
\* status 400 and never handed to the text extractor.
C4_SizeGuardBoundary ==
    pdf.parse # "unread" =>
        /\ pdf.size > 10 * 1024 * 1024 =>
              /\ pc = "Error"
              /\ errKind = "too_large"
              /\ response.status = 400
              /\ extractorCalls = 0
        /\ pdf.size <= 10 * 1024 * 1024 =>
              /\ extractorCalls = 1
              /\ errKind # "too_large"

C4_Witness ==
    /\ pdf.parse = "ok"
    /\ pdf.size = 10 * 1024 * 1024
    /\ extractorCalls = 1
    /\ pc = "TextExtracted"

\* the completion is a text that decodes to a dict, between an opening fence
\* with one of the tags and a closing fence
FencedDocument(opens) ==
    /\ ParserRan
    /\ model_out.open \in opens
    /\ model_out.close = Fence
    /\ JsonLoads(model_out.body).ok
    /\ IsDict(JsonLoads(model_out.body).val)

DecodedAsUnfenced ==
    /\ errKind # "malformed_output"
    /\ questions_data = ParseResponse(model_out.body).val

\* C5 as stated: a completion that decodes as the expected document, wrapped
\* in an opening fence with or without a language tag and a closing fence,
\* decodes to the same result as without the fences.
C5_FencedWithAnyTagDecodesAsUnfenced ==
    FencedDocument(OpenFences \ {<<>>}) => DecodedAsUnfenced

\* C5 as amended: the same, for an opening fence with no tag or with the
\* tag json in lower case.
C5_FencedDecodesAsUnfenced ==
    FencedDocument({Fence, FenceJson}) => DecodedAsUnfenced

C5_Witness ==
    /\ pc = "Parsed"
    /\ FencedDocument({FenceJson})
    /\ model_out.content # model_out.body
    /\ Len(quiz.mcq) > 0
    /\ questions_data = JsonLoads(model_out.body).val

\* C6: a completion that decodes but holds a record without a required field
\* or with a field of the wrong shape ends the request with a status 500
\* schema-validation error, never with a success response.
C6_BadRecordIsSchemaError ==
    (ParserRan /\ model_out.body \in BadRecordDocs
        /\ ParseResponse(model_out.content).ok) =>
        /\ pc = "Error"
        /\ errKind = "schema_validation"
        /\ response.status = 500
        /\ ~HasIndicator(response.body)

C6_Witness ==
    /\ pc = "Error"
    /\ errKind = "schema_validation"
    /\ response.status = 500
    /\ model_out.body =
          DocText(ArrText(<<ObjText(<<QuestionMem, OptionsMem>>)>>), OneShort, OneBlank)

IsPrefix(a, b) == Len(a) <= Len(b) /\ SubSeq(b, 1, Len(a)) = a

\* the request has gone through the states in their order, and into Error at
\* most from a state that is not Responded
LinearPath ==
    /\ pc = path[Len(path)]
    /\ \/ IsPrefix(path, States)
       \/ /\ path[Len(path)] = "Error"
          /\ Len(path) - 1 < Len(States)
          /\ IsPrefix(SubSeq(path, 1, Len(path) - 1), States)

\* a step goes to the next state or to Error, and never out of Responded or Error
LinearStep ==
    /\ pc \notin Terminal
    /\ pc' \in {Successor(pc), "Error"}

\* C7: a request goes through Received, Validated, TextExtracted, Generated,
\* Parsed, Responded in that order without skipping or revisiting one, into
\* Error only from a state that is not terminal, and no step leaves Responded
\* or Error.
C7_LinearStateMachine == []LinearPath /\ [][LinearStep]_vars

C7_Witness ==
    /\ pc = "Error"
    /\ path = <<"Received", "Validated", "TextExtracted", "Generated", "Parsed", "Error">>

\* Error is entered from the state p
ErrorFrom(p) == Len(path) > 1 /\ pc = "Error" /\ path[Len(path) - 1] = p

\* C8: a request calls the model service at most once; a failed call and an
\* undecodable completion end the request with status 500 after that one call.
C8_SingleModelCall ==
    /\ modelCalls <= 1
    /\ Visited("Generated") => modelCalls = 1
    /\ errKind \in {"model_service", "malformed_output"} =>
          /\ pc = "Error"
          /\ response.status = 500
          /\ modelCalls = 1

C8_Witness ==
    /\ pc = "Error"
    /\ errKind = "model_service"
    /\ ~model_out.ok
    /\ response.status = 500
    /\ modelCalls = 1

\* C9 as stated: every failure yields a JSON body with a success indicator
\* and a human-readable message.
C9_FailureBodyHasIndicatorAndMessage ==
    pc = "Error" =>
        /\ HasIndicator(response.body)
        /\ MessageOf(response.body) # <<>>

\* C9 as amended: every failure yields a status 400 or 500 and a JSON body
\* with a human-readable message; the body holds a success indicator exactly
\* when global_exception_handler made it, and a failure raised in
\* generate_quiz holds the message under detail.
C9_FailureBodyHasMessage ==
    pc = "Error" =>
        /\ response.status \in {400, 500}
        /\ MessageOf(response.body) # <<>>
        /\ HasIndicator(response.body) <=> errKind = "outside_endpoint"
        /\ FailedInEndpoint => DOMAIN response.body = {"detail"}

C9_Witness ==
    /\ pc = "Error"
    /\ errKind = "schema_validation"
    /\ DOMAIN response.body = {"detail"}
    /\ response.body.detail = <<"Error: ", "ValidationError">>

\* C10: an exception that is none of the classified errors is reported with
\* status 500 and a fixed message that holds nothing of the exception.
C10_UnclassifiedFaultHasFixedMessage ==
    (pc = "Error" /\ errKind \in {"uncategorized", "outside_endpoint"}) =>
        /\ response.status = 500
        /\ \A i \in 1..Len(MessageOf(response.body)) :
              MessageOf(response.body)[i] \notin ExcTexts

====
